---- MODULE Spec2Model ----
(***************************************************************************)
(* Social Orbit: the encrypted vault (utils/secureStorage.js), the legacy  *)
(* localStorage migration and the VaultGate component that drives them.    *)
(*                                                                         *)
(* JavaScript is single-threaded: the code between two awaits runs         *)
(* atomically, so every action below is one such segment of one async      *)
(* function.  A call is a stack of frames (an async function awaiting      *)
(* another one); the frame on top is the one that runs.                    *)
(*                                                                         *)
(* Cryptography is symbolic: a key is the pair (passphrase, salt) it was   *)
(* derived from, a ciphertext is the pair (key, plaintext), AES-GCM        *)
(* decryption fails unless the keys are equal, and a generated salt is new.*)
(***************************************************************************)
EXTENDS Integers, Sequences, FiniteSets, TLC

\* ------------------------------------------------------------------ bounds
\* number of salts crypto.getRandomValues may hand out in one behaviour
MaxSalts == 2

\* ------------------------------------------------------- program constants
MinPassphraseLength == 4

SALT_KEY == "socialOrbit_salt"
VAULT_CHECK == "_vault_check"

\* ------------------------------------------------------------ value domains
\* Passphrases are character sequences; Short has 3 characters.
Short == <<1, 2, 3>>
PassA == <<1, 2, 3, 4>>
PassB == <<1, 2, 3, 5>>
NoPass == <<>>
Passphrases == {Short, PassA, PassB}

\* JavaScript values, named by their source text.  "undefined" and "NaN" are
\* the values JSON cannot represent; FnObject is Object.prototype.constructor.
Undefined == "undefined"
Null == "null"
FnObject == "function Object"
JsonValues == {"null", "false", "[1]", "[2]", "'raw'", "'sk-1'"}
JsValues == JsonValues \cup {"undefined", "NaN", FnObject}

\* Texts: what JSON.stringify produces and what localStorage holds.
NoText == "<none>"

\* logical keys of the blob store, in IndexedDB key order
KeyOrder == <<"_vault_check", "apiKey", "constructor", "formData", "friends", "mockMode",
              "persona">>
DbKeys == {KeyOrder[i] : i \in 1..Len(KeyOrder)}
\* own-property marker of a JavaScript object used as a map
Absent == "<absent>"
\* properties every {} inherits from Object.prototype
ProtoKeys == {"constructor"}

\* legacy localStorage keys
LegacyKeys == {"socialOrbit_friends", "socialOrbit_persona", "socialOrbit_formData",
               "socialOrbit_mockMode", "socialOrbit_apiKey"}
NoLegacy == [k \in LegacyKeys |-> NoText]

\* ------------------------------------------------------------ crypto helpers
NoSalt == 0
NoKey == [pass |-> NoPass, salt |-> NoSalt]
NoRec == [ck |-> NoKey, pt |-> NoText, iv |-> 0]
ParseError == "<SyntaxError>"
\* the verification token's plaintext, {verified: true, timestamp}
TokenValue == "{verified}"

\* PBKDF2: deterministic in (passphrase, salt)
deriveKey(passphrase, salt) == [pass |-> passphrase, salt |-> salt]

\* JSON.stringify followed by TextEncoder.encode: NaN becomes null, and
\* stringify(undefined) is undefined, which encode() turns into no bytes.
JSONstringify(v) ==
    CASE v = "undefined" -> ""
      [] v = "NaN" -> "null"
      [] v = FnObject -> ""
      [] v = "'raw'" -> "\"raw\""
      [] v = "'sk-1'" -> "\"sk-1\""
      [] OTHER -> v

\* JSON.parse
JSONparse(t) ==
    CASE t \in {"null", "false", "true", "[]", "[1]", "[2]", "EMPTY_FORM", TokenValue} -> t
      [] t = "\"raw\"" -> "'raw'"
      [] t = "\"sk-1\"" -> "'sk-1'"
      [] OTHER -> ParseError


\* decrypt(encryptedObj, key): the value, or ParseError when the tag does
\* not verify, the record or the key is missing, or the text is not JSON
decrypt(encryptedObj, key) ==
    IF encryptedObj = NoRec \/ key = NoKey \/ encryptedObj.ck # key
    THEN ParseError
    ELSE JSONparse(encryptedObj.pt)

\* ------------------------------------------------------------------- state
VARIABLES
    db,            \* IndexedDB object store: logical key -> encrypted record
    saltStore,     \* localStorage[SALT_KEY]
    legacy,        \* localStorage: the five legacy keys -> text
    nextSalt,      \* the next salt generateSalt returns
    faults,        \* whether IndexedDB requests may fail in this behaviour
    derivedKey,    \* SecureStorage.derivedKey
    isUnlocked,    \* SecureStorage.isUnlocked
    memoryCache,   \* SecureStorage.memoryCache (own properties)
    apiKeyMemory,  \* SecureStorage.apiKeyMemory
    keyAge,        \* hours since apiKeyMemory got the key it holds (0: none)
    gate,          \* VaultGate state
    migrationData, \* VaultGate migrationData
    hasOldData,    \* VaultGate hasOldData
    initialDataLoaded, \* App: onDataLoaded has run since the last lock
    appData,       \* App: the state its save effects write (friends, formData, useMockMode)
    call,          \* per caller: the stack of frames of its call in flight
    nextIv,        \* the next IV crypto.getRandomValues gives encrypt (0: IVs not followed)
    last,          \* the call that returned in this step, if any
    watch          \* observer of the call sequences the properties speak of

vaultVars == <<derivedKey, isUnlocked, memoryCache, apiKeyMemory, keyAge>>
storeVars == <<db, saltStore, legacy, nextSalt, faults>>
gateVars == <<gate, migrationData, hasOldData, initialDataLoaded, appData>>
vars == <<db, saltStore, legacy, nextSalt, faults, derivedKey, isUnlocked, memoryCache,
          apiKeyMemory, keyAge, gate, migrationData, hasOldData, initialDataLoaded, appData,
          call, nextIv, last, watch>>

\* an encrypt whose IV is a fixed value
encrypt_fixedIv(data, key) == [ck |-> key, pt |-> JSONstringify(data), iv |-> 1]

\* encrypt(data, key): AES-GCM over JSON.stringify(data) under the IV drawn
\* from crypto.getRandomValues, which goes into the record
encrypt(data, key) == [ck |-> key, pt |-> JSONstringify(data), iv |-> nextIv]

\* ------------------------------------------------------------------ errors
NoErr == ""
ErrLocked == "Vault is locked"
ErrIncorrect == "Incorrect passphrase"
ErrWeak == "Passphrase must be at least 4 characters"
ErrCurrentIncorrect == "Current passphrase is incorrect"
ErrNewWeak == "New passphrase must be at least 4 characters"
ErrMismatch == "Passphrases do not match"
\* request.error of a failed IndexedDB request
ErrStorage == "StorageError"

\* ------------------------------------------------------------------ frames
Procs == {1, 2}

\* one activation of an async function: its arguments and locals
Frame(op, p, q, k, v) ==
    [op |-> op, pc |-> "", p |-> p, q |-> q, k |-> k, v |-> v,
     sk |-> NoKey, salt |-> NoSalt, enc |-> NoRec, keys |-> <<>>, i |-> 1,
     acc |-> <<>>, res |-> Undefined, resm |-> <<>>, rerr |-> NoErr,
     snap |-> NoLegacy, cause |-> NoErr, over |-> FALSE]

NoLast == [op |-> "", p |-> NoPass, q |-> NoPass, k |-> "", v |-> "",
           ret |-> "", retm |-> <<>>, err |-> NoErr, snap |-> NoLegacy,
           cause |-> NoErr, over |-> FALSE]

Top(s) == Head(call[s])
\* frame f when the IndexedDB request it awaits has failed: the request's
\* error is noted as the cause of what the call goes on to throw
Failed(f) == [f EXCEPT !.cause = ErrStorage]
Running(s, op, pc) == call[s] # <<>> /\ Top(s).op = op /\ Top(s).pc = pc
Idle == \A s \in Procs : call[s] = <<>>

\* an object used as a map, from its entries in insertion order
FromEntries(ents) ==
    [k \in DbKeys |->
        IF \E i \in 1..Len(ents) : ents[i][1] = k
        THEN ents[CHOOSE i \in 1..Len(ents) : ents[i][1] = k][2]
        ELSE Absent]
EmptyObject == [k \in DbKeys |-> Absent]

\* obj[key]: the own property, else the one inherited from Object.prototype
Lookup(obj, key) ==
    IF obj[key] # Absent THEN obj[key]
    ELSE IF key \in ProtoKeys THEN FnObject
    ELSE Undefined

\* the keys store.getAllKeys() returns, without '_vault_check'
RECURSIVE KeysFrom(_, _)
KeysFrom(i, d) ==
    IF i > Len(KeyOrder) THEN <<>>
    ELSE (IF d[KeyOrder[i]] # NoRec /\ KeyOrder[i] # VAULT_CHECK
          THEN <<KeyOrder[i]>> ELSE <<>>) \o KeysFrom(i + 1, d)
allKeys(d) == KeysFrom(1, d)

\* ---------------------------------------------------------------- observer
\* Follows the calls a caller makes one after the other: initializeVault(p),
\* setItem(k, v) (k is the key being followed), optionally
\* changePassphrase(old, new), then lock(), unlock(up) and getItem(k) = r.
\* pre is the value k had before a setItem(k, v) that was called while
\* another caller's call was in flight (such a setItem may also return after
\* the changePassphrase it overlapped).
\* Any other call, and any failed call before the lock, ends the sequence.
NoWatch == [stage |-> "none", p |-> NoPass, k |-> "", v |-> "", rot |-> FALSE,
            old |-> NoPass, new |-> NoPass, up |-> NoPass, r |-> "", pre |-> ""]

WatchSucc(w, l) ==
    CASE l.op = "initializeVault" ->
            IF l.err = NoErr THEN {[NoWatch EXCEPT !.stage = "inited", !.p = l.p]}
            ELSE {NoWatch}
      [] l.op = "setItem" ->
            IF l.err = NoErr /\ l.over /\ w.stage = "rotated"
            THEN {[w EXCEPT !.k = l.k, !.v = l.v,
                            !.pre = IF w.k = l.k THEN w.v ELSE ""]}
            ELSE IF l.err # NoErr \/ w.stage \notin {"inited", "set"} THEN {NoWatch}
            ELSE IF w.stage = "set" /\ l.k # w.k
                 THEN {w, [w EXCEPT !.k = l.k, !.v = l.v, !.pre = ""]}
                 ELSE {[w EXCEPT !.stage = "set", !.k = l.k, !.v = l.v,
                                 !.pre = IF l.over /\ w.stage = "set" THEN w.v
                                         ELSE ""]}
      [] l.op = "changePassphrase" ->
            IF l.err = NoErr /\ w.stage = "set"
            THEN {[w EXCEPT !.stage = "rotated", !.rot = TRUE, !.old = l.p, !.new = l.q]}
            ELSE {NoWatch}
      [] l.op = "lock" ->
            IF w.stage \in {"set", "rotated"} THEN {[w EXCEPT !.stage = "locked"]}
            ELSE {NoWatch}
      [] l.op = "unlock" ->
            IF w.stage = "locked"
            THEN {[w EXCEPT !.stage = IF l.err = NoErr THEN "reopened" ELSE "rejected",
                            !.up = l.p, !.r = l.err]}
            ELSE {NoWatch}
      [] l.op = "getItem" ->
            IF w.stage = "reopened" /\ l.k = w.k
            THEN {[w EXCEPT !.stage = "read",
                            !.r = IF l.err = NoErr THEN l.ret ELSE "<threw>"]}
            ELSE IF w.stage \in {"inited", "set", "rotated", "reopened"} /\ l.err = NoErr
                 THEN {w}
                 ELSE {NoWatch}
      [] l.op \in {"setApiKey", "getApiKey", "clearApiKey"} ->
            IF w.stage \in {"inited", "set", "rotated", "reopened"} THEN {w}
            ELSE {NoWatch}
      [] OTHER -> {NoWatch}

\* ------------------------------------------------------- calls and returns
\* frame f runs on, above the frames in rest
Continue(s, rest, f) ==
    /\ call' = [call EXCEPT ![s] = <<f>> \o rest]
    /\ nextIv' = IF nextIv # 0 /\ f.enc.iv = nextIv THEN nextIv + 1 ELSE nextIv
    /\ last' = NoLast
    /\ watch' = watch

\* frame f returns ret (a value) or retm (an object), or throws err: to the
\* frame awaiting it, or to the caller when there is none
Finish(s, rest, f, ret, retm, err) ==
    IF rest = <<>>
    THEN LET l == [op |-> f.op, p |-> f.p, q |-> f.q, k |-> f.k, v |-> f.v,
                   ret |-> ret, retm |-> retm, err |-> err, snap |-> f.snap,
                   cause |-> f.cause,
                   over |-> f.over]
         IN /\ call' = [call EXCEPT ![s] = <<>>]
            /\ nextIv' = nextIv
            /\ last' = l
            /\ watch' \in WatchSucc(watch, l)
    ELSE /\ call' = [call EXCEPT ![s] =
                        <<[Head(rest) EXCEPT !.res = ret, !.resm = retm, !.rerr = err,
                                             !.cause = f.cause]>>
                        \o Tail(rest)]
         /\ nextIv' = nextIv
         /\ last' = NoLast
         /\ watch' = watch

Rest(s) == Tail(call[s])
\* caller 1 awaits each of its calls before the next; it starts a call only
\* when no call is in flight
CanStart(s) == Idle /\ s = 1

\* --------------------------------------------------------------- getSalt
\* getSalt up to its first await: the stored salt, or generateSalt()
Enter_getSalt(s, rest, f) ==
    /\ saltStore # NoSalt \/ nextSalt <= MaxSalts
    /\ Continue(s, rest, [f EXCEPT !.salt = saltStore,
                                   !.pc = IF saltStore = NoSalt THEN "salt_gen"
                                          ELSE "derive"])

\* getSalt after generateSalt(): the new salt goes to localStorage
getSalt(s) ==
    /\ call[s] # <<>> /\ Top(s).pc = "salt_gen"
    /\ saltStore' = nextSalt
    /\ nextSalt' = nextSalt + 1
    /\ Continue(s, Rest(s), [Top(s) EXCEPT !.salt = nextSalt, !.pc = "derive"])
    /\ UNCHANGED <<db, legacy, faults, vaultVars, gateVars>>

\* --------------------------------------------------------- initializeVault
\* an initializeVault that accepts a passphrase one character shorter
Enter_initializeVault_shorter(s, rest, passphrase) ==
    LET f == Frame("initializeVault", passphrase, NoPass, "", "") IN
    IF Len(passphrase) < MinPassphraseLength - 1
    THEN Finish(s, rest, f, Undefined, <<>>, ErrWeak)
    ELSE Enter_getSalt(s, rest, f)

Enter_initializeVault(s, rest, passphrase) ==
    LET f == Frame("initializeVault", passphrase, NoPass, "", "") IN
    IF Len(passphrase) < MinPassphraseLength
    THEN Finish(s, rest, f, Undefined, <<>>, ErrWeak)
    ELSE Enter_getSalt(s, rest, f)

\* deriveKey resolved: key and flag are set, the token is encrypted
initializeVault_derived(s) ==
    /\ Running(s, "initializeVault", "derive")
    /\ LET key == deriveKey(Top(s).p, Top(s).salt) IN
        /\ derivedKey' = key
        /\ isUnlocked' = TRUE
        /\ Continue(s, Rest(s), [Top(s) EXCEPT !.enc = encrypt(TokenValue, key),
                                               !.pc = "dbset"])
    /\ UNCHANGED <<storeVars, memoryCache, apiKeyMemory, keyAge, gateVars>>

\* dbSet('_vault_check', verificationData)
initializeVault_store(s) ==
    /\ Running(s, "initializeVault", "dbset")
    /\ \/ /\ db' = [db EXCEPT ![VAULT_CHECK] = Top(s).enc]
          /\ Finish(s, Rest(s), Top(s), "true", <<>>, NoErr)
       \/ /\ faults
          /\ db' = db
          /\ Finish(s, Rest(s), Failed(Top(s)), Undefined, <<>>, ErrStorage)
    /\ UNCHANGED <<saltStore, legacy, nextSalt, faults, vaultVars, gateVars>>

\* ------------------------------------------------------------------ unlock
Enter_unlock(s, rest, passphrase) ==
    Enter_getSalt(s, rest, Frame("unlock", passphrase, NoPass, "", ""))

unlock_derived(s) ==
    /\ Running(s, "unlock", "derive")
    /\ derivedKey' = deriveKey(Top(s).p, Top(s).salt)
    /\ Continue(s, Rest(s), [Top(s) EXCEPT !.pc = "dbget"])
    /\ UNCHANGED <<storeVars, isUnlocked, memoryCache, apiKeyMemory, keyAge, gateVars>>

\* a catch block that keeps the key it derived
unlock_catch_keepsKey(s, f) ==
    /\ derivedKey' = derivedKey
    /\ isUnlocked' = FALSE
    /\ Finish(s, Rest(s), f, Undefined, <<>>, ErrIncorrect)
    /\ UNCHANGED <<memoryCache, apiKeyMemory, keyAge>>

\* the catch block of unlock
unlock_catch(s, f) ==
    /\ derivedKey' = NoKey
    /\ isUnlocked' = FALSE
    /\ Finish(s, Rest(s), f, Undefined, <<>>, ErrIncorrect)
    /\ UNCHANGED <<memoryCache, apiKeyMemory, keyAge>>

\* dbGet('_vault_check') settled
unlock_token(s) ==
    /\ Running(s, "unlock", "dbget")
    /\ \/ /\ db[VAULT_CHECK] # NoRec
          /\ Continue(s, Rest(s), [Top(s) EXCEPT !.enc = db[VAULT_CHECK],
                                                 !.sk = derivedKey, !.pc = "decrypt"])
          /\ UNCHANGED vaultVars
       \/ /\ db[VAULT_CHECK] = NoRec
          /\ unlock_catch(s, Top(s))
       \/ /\ faults
          /\ unlock_catch(s, Failed(Top(s)))
    /\ UNCHANGED <<storeVars, gateVars>>

\* decrypt(verificationData, this.derivedKey) settled
unlock_verified(s) ==
    /\ Running(s, "unlock", "decrypt")
    /\ IF decrypt(Top(s).enc, Top(s).sk) # ParseError
       THEN /\ isUnlocked' = TRUE
            /\ memoryCache' = EmptyObject
            /\ Finish(s, Rest(s), Top(s), "true", <<>>, NoErr)
            /\ UNCHANGED <<derivedKey, apiKeyMemory, keyAge>>
       ELSE unlock_catch(s, Top(s))
    /\ UNCHANGED <<storeVars, gateVars>>

\* -------------------------------------------------------------------- lock
\* a lock that keeps the cache
lock_body_keepsCache ==
    /\ derivedKey' = NoKey
    /\ isUnlocked' = FALSE
    /\ memoryCache' = memoryCache
    /\ apiKeyMemory' = NoText
    /\ keyAge' = 0

lock_body ==
    /\ derivedKey' = NoKey
    /\ isUnlocked' = FALSE
    /\ memoryCache' = EmptyObject
    /\ apiKeyMemory' = NoText
    /\ keyAge' = 0

\* ----------------------------------------------------------------- setItem
\* a setItem without the isUnlocked guard
Enter_setItem_unguarded(s, rest, key, value) ==
    LET f == Frame("setItem", NoPass, NoPass, key, value) IN
    Continue(s, rest, [f EXCEPT !.enc = encrypt(value, derivedKey), !.pc = "dbset"])

Enter_setItem(s, rest, key, value) ==
    LET f == Frame("setItem", NoPass, NoPass, key, value) IN
    IF ~isUnlocked
    THEN Finish(s, rest, f, Undefined, <<>>, ErrLocked)
    ELSE Continue(s, rest, [f EXCEPT !.enc = encrypt(value, derivedKey),
                                     !.sk = derivedKey, !.pc = "dbset",
                                     !.over = \E t \in Procs \ {s} : call[t] # <<>>])

\* a setItem that encrypts under the key held when the write is issued
setItem_store_currentKey(s) ==
    /\ Running(s, "setItem", "dbset")
    /\ \/ /\ db' = [db EXCEPT ![Top(s).k] = encrypt(Top(s).v, derivedKey)]
          /\ Continue(s, Rest(s), [Top(s) EXCEPT !.pc = "cache"])
       \/ /\ faults
          /\ db' = db
          /\ Finish(s, Rest(s), Failed(Top(s)), Undefined, <<>>, ErrStorage)
    /\ UNCHANGED <<saltStore, legacy, nextSalt, faults, vaultVars, gateVars>>

\* dbSet(key, encrypted)
setItem_store(s) ==
    /\ Running(s, "setItem", "dbset")
    /\ \/ /\ db' = [db EXCEPT ![Top(s).k] = Top(s).enc]
          /\ Continue(s, Rest(s), [Top(s) EXCEPT !.pc = "cache"])
       \/ /\ faults
          /\ db' = db
          /\ Finish(s, Rest(s), Failed(Top(s)), Undefined, <<>>, ErrStorage)
    /\ UNCHANGED <<saltStore, legacy, nextSalt, faults, vaultVars, gateVars>>

\* this.memoryCache[key] = value
setItem_cache(s) ==
    /\ Running(s, "setItem", "cache")
    /\ memoryCache' = [memoryCache EXCEPT ![Top(s).k] = Top(s).v]
    /\ Finish(s, Rest(s), Top(s), Undefined, <<>>, NoErr)
    /\ UNCHANGED <<storeVars, derivedKey, isUnlocked, apiKeyMemory, keyAge, gateVars>>

\* ----------------------------------------------------------------- getItem
Enter_getItem(s, rest, key) ==
    LET f == Frame("getItem", NoPass, NoPass, key, "") IN
    IF ~isUnlocked
    THEN Finish(s, rest, f, Undefined, <<>>, ErrLocked)
    ELSE IF Lookup(memoryCache, key) # Undefined
         THEN Finish(s, rest, f, Lookup(memoryCache, key), <<>>, NoErr)
         ELSE Continue(s, rest, [f EXCEPT !.pc = "dbget"])

\* dbGet(key) settled
getItem_record(s) ==
    /\ Running(s, "getItem", "dbget")
    /\ \/ /\ db[Top(s).k] = NoRec
          /\ Finish(s, Rest(s), Top(s), Null, <<>>, NoErr)
       \/ /\ db[Top(s).k] # NoRec
          /\ Continue(s, Rest(s), [Top(s) EXCEPT !.enc = db[Top(s).k],
                                                 !.sk = derivedKey, !.pc = "decrypt"])
       \/ /\ faults
          /\ Finish(s, Rest(s), Failed(Top(s)), Undefined, <<>>, ErrStorage)
    /\ UNCHANGED <<storeVars, vaultVars, gateVars>>

\* decrypt(encrypted, this.derivedKey) settled
getItem_decrypted(s) ==
    /\ Running(s, "getItem", "decrypt")
    /\ LET decrypted == decrypt(Top(s).enc, Top(s).sk) IN
       IF decrypted # ParseError
       THEN /\ memoryCache' = [memoryCache EXCEPT ![Top(s).k] = decrypted]
            /\ Finish(s, Rest(s), Top(s), decrypted, <<>>, NoErr)
       ELSE /\ memoryCache' = memoryCache
            /\ Finish(s, Rest(s), Top(s), Null, <<>>, NoErr)
    /\ UNCHANGED <<storeVars, derivedKey, isUnlocked, apiKeyMemory, keyAge, gateVars>>

\* -------------------------------------------------------------- removeItem
Enter_removeItem(s, rest, key) ==
    LET f == Frame("removeItem", NoPass, NoPass, key, "") IN
    IF ~isUnlocked
    THEN Finish(s, rest, f, Undefined, <<>>, ErrLocked)
    ELSE Continue(s, rest, [f EXCEPT !.pc = "dbdel"])

\* dbDelete(key)
removeItem_delete(s) ==
    /\ Running(s, "removeItem", "dbdel")
    /\ \/ /\ db' = [db EXCEPT ![Top(s).k] = NoRec]
          /\ Continue(s, Rest(s), [Top(s) EXCEPT !.pc = "cache"])
       \/ /\ faults
          /\ db' = db
          /\ Finish(s, Rest(s), Failed(Top(s)), Undefined, <<>>, ErrStorage)
    /\ UNCHANGED <<saltStore, legacy, nextSalt, faults, vaultVars, gateVars>>

\* delete this.memoryCache[key]
removeItem_cache(s) ==
    /\ Running(s, "removeItem", "cache")
    /\ memoryCache' = [memoryCache EXCEPT ![Top(s).k] = Absent]
    /\ Finish(s, Rest(s), Top(s), Undefined, <<>>, NoErr)
    /\ UNCHANGED <<storeVars, derivedKey, isUnlocked, apiKeyMemory, keyAge, gateVars>>

\* ------------------------------------------------------------- vaultExists
Enter_vaultExists(s, rest) ==
    Continue(s, rest, [Frame("vaultExists", NoPass, NoPass, "", "") EXCEPT !.pc = "dbget"])

\* dbGet('_vault_check') settled
vaultExists_token(s) ==
    /\ Running(s, "vaultExists", "dbget")
    /\ \/ Finish(s, Rest(s), Top(s),
                 IF db[VAULT_CHECK] # NoRec THEN "true" ELSE "false", <<>>, NoErr)
       \/ /\ faults
          /\ Finish(s, Rest(s), Failed(Top(s)), Undefined, <<>>, ErrStorage)
    /\ UNCHANGED <<storeVars, vaultVars, gateVars>>

\* ------------------------------------------------------------ destroyVault
Enter_destroyVault(s, rest) ==
    Continue(s, rest, [Frame("destroyVault", NoPass, NoPass, "", "") EXCEPT !.pc = "clear"])

\* a destroyVault that leaves the salt in localStorage
destroyVault_clear_keepsSalt(s) ==
    /\ Running(s, "destroyVault", "clear")
    /\ \/ /\ db' = [k \in DbKeys |-> NoRec]
          /\ saltStore' = saltStore
          /\ lock_body
          /\ Finish(s, Rest(s), Top(s), Undefined, <<>>, NoErr)
       \/ /\ faults
          /\ UNCHANGED <<db, saltStore, vaultVars>>
          /\ Finish(s, Rest(s), Failed(Top(s)), Undefined, <<>>, ErrStorage)
    /\ UNCHANGED <<legacy, nextSalt, faults, gateVars>>

\* dbClear() settled, then the salt is removed and the vault locked
destroyVault_clear(s) ==
    /\ Running(s, "destroyVault", "clear")
    /\ \/ /\ db' = [k \in DbKeys |-> NoRec]
          /\ saltStore' = NoSalt
          /\ lock_body
          /\ Finish(s, Rest(s), Top(s), Undefined, <<>>, NoErr)
       \/ /\ faults
          /\ UNCHANGED <<db, saltStore, vaultVars>>
          /\ Finish(s, Rest(s), Failed(Top(s)), Undefined, <<>>, ErrStorage)
    /\ UNCHANGED <<legacy, nextSalt, faults, gateVars>>

\* -------------------------------------------------------- changePassphrase
Enter_changePassphrase(s, rest, currentPassphrase, newPassphrase) ==
    /\ nextSalt <= MaxSalts
    /\ Enter_getSalt(s, rest, Frame("changePassphrase", currentPassphrase,
                                    newPassphrase, "", ""))

\* oldKey derived
changePassphrase_derived(s) ==
    /\ Running(s, "changePassphrase", "derive")
    /\ Continue(s, Rest(s), [Top(s) EXCEPT !.sk = deriveKey(Top(s).p, Top(s).salt),
                                           !.pc = "dbget"])
    /\ UNCHANGED <<storeVars, vaultVars, gateVars>>

\* dbGet('_vault_check') settled, inside the try block
changePassphrase_token(s) ==
    /\ Running(s, "changePassphrase", "dbget")
    /\ \/ Continue(s, Rest(s), [Top(s) EXCEPT !.enc = db[VAULT_CHECK], !.pc = "verify"])
       \/ /\ faults
          /\ Finish(s, Rest(s), Failed(Top(s)), Undefined, <<>>, ErrCurrentIncorrect)
    /\ UNCHANGED <<storeVars, vaultVars, gateVars>>

\* decrypt(verificationData, oldKey) settled, then the length check
changePassphrase_verified(s) ==
    /\ Running(s, "changePassphrase", "verify")
    /\ IF decrypt(Top(s).enc, Top(s).sk) = ParseError
       THEN Finish(s, Rest(s), Top(s), Undefined, <<>>, ErrCurrentIncorrect)
       ELSE IF Len(Top(s).q) < MinPassphraseLength
            THEN Finish(s, Rest(s), Top(s), Undefined, <<>>, ErrNewWeak)
            ELSE Continue(s, Rest(s), [Top(s) EXCEPT !.pc = "keys"])
    /\ UNCHANGED <<storeVars, vaultVars, gateVars>>

\* store.getAllKeys() settled
changePassphrase_keys(s) ==
    /\ Running(s, "changePassphrase", "keys")
    /\ \/ LET ks == allKeys(db) IN
          Continue(s, Rest(s), [Top(s) EXCEPT !.keys = ks, !.i = 1, !.acc = <<>>,
                                    !.pc = IF ks = <<>> THEN "newsalt" ELSE "read"])
       \/ /\ faults
          /\ Finish(s, Rest(s), Failed(Top(s)), Undefined, <<>>, ErrStorage)
    /\ UNCHANGED <<storeVars, vaultVars, gateVars>>

\* the pc after key number i of the first loop
AfterRead(f) == IF f.i >= Len(f.keys) THEN "newsalt" ELSE "read"

\* first loop: dbGet(key) settled
changePassphrase_read(s) ==
    /\ Running(s, "changePassphrase", "read")
    /\ LET f == Top(s)
           encrypted == db[f.keys[f.i]]
       IN \/ /\ encrypted # NoRec
             /\ Continue(s, Rest(s), [f EXCEPT !.enc = encrypted, !.pc = "dec"])
          \/ /\ encrypted = NoRec
             /\ Continue(s, Rest(s), [f EXCEPT !.i = f.i + 1, !.pc = AfterRead(f)])
          \/ /\ faults
             /\ Finish(s, Rest(s), Failed(f), Undefined, <<>>, ErrStorage)
    /\ UNCHANGED <<storeVars, vaultVars, gateVars>>

\* first loop: decrypt(encrypted, oldKey) settled; a failure is only logged
changePassphrase_dec(s) ==
    /\ Running(s, "changePassphrase", "dec")
    /\ LET f == Top(s)
           value == decrypt(f.enc, f.sk)
       IN Continue(s, Rest(s),
                   [f EXCEPT !.acc = IF value = ParseError THEN f.acc
                                     ELSE Append(f.acc, <<f.keys[f.i], value>>),
                             !.i = f.i + 1, !.pc = AfterRead(f)])
    /\ UNCHANGED <<storeVars, vaultVars, gateVars>>

\* generateSalt() settled: the new salt replaces the stored one
changePassphrase_newsalt(s) ==
    /\ Running(s, "changePassphrase", "newsalt")
    /\ nextSalt <= MaxSalts
    /\ saltStore' = nextSalt
    /\ nextSalt' = nextSalt + 1
    /\ Continue(s, Rest(s), [Top(s) EXCEPT !.salt = nextSalt, !.pc = "newkey"])
    /\ UNCHANGED <<db, legacy, faults, vaultVars, gateVars>>

\* deriveKey(newPassphrase, newSalt) settled; the token is encrypted
changePassphrase_newkey(s) ==
    /\ Running(s, "changePassphrase", "newkey")
    /\ LET key == deriveKey(Top(s).q, Top(s).salt) IN
        /\ derivedKey' = key
        /\ Continue(s, Rest(s), [Top(s) EXCEPT !.enc = encrypt(TokenValue, key),
                                               !.pc = "token"])
    /\ UNCHANGED <<storeVars, isUnlocked, memoryCache, apiKeyMemory, keyAge, gateVars>>

\* the end of the second loop: this.memoryCache = decryptedData
changePassphrase_done(s, f) ==
    /\ memoryCache' = FromEntries(f.acc)
    /\ Finish(s, Rest(s), f, "true", <<>>, NoErr)

\* dbSet('_vault_check', newVerification) settled
changePassphrase_store(s) ==
    /\ Running(s, "changePassphrase", "token")
    /\ LET f == Top(s) IN
       \/ /\ db' = [db EXCEPT ![VAULT_CHECK] = f.enc]
          /\ IF f.acc = <<>>
             THEN changePassphrase_done(s, f)
             ELSE /\ Continue(s, Rest(s),
                              [f EXCEPT !.i = 1, !.pc = "write",
                                        !.enc = encrypt(f.acc[1][2], derivedKey)])
                  /\ memoryCache' = memoryCache
       \/ /\ faults
          /\ db' = db
          /\ memoryCache' = memoryCache
          /\ Finish(s, Rest(s), Failed(f), Undefined, <<>>, ErrStorage)
    /\ UNCHANGED <<saltStore, legacy, nextSalt, faults, derivedKey, isUnlocked, apiKeyMemory, keyAge,
                   gateVars>>

\* a changePassphrase that on a failed write puts the records it rewrote and
\* the token back under the old key
changePassphrase_write_rollsBack(s) ==
    /\ Running(s, "changePassphrase", "write")
    /\ LET f == Top(s) IN
       \/ /\ db' = [db EXCEPT ![f.acc[f.i][1]] = f.enc]
          /\ IF f.i >= Len(f.acc)
             THEN changePassphrase_done(s, f)
             ELSE /\ Continue(s, Rest(s),
                              [f EXCEPT !.i = f.i + 1,
                                        !.enc = encrypt(f.acc[f.i + 1][2], derivedKey)])
                  /\ memoryCache' = memoryCache
       \/ /\ faults
          /\ db' = [k \in DbKeys |->
                       IF k = VAULT_CHECK THEN encrypt(TokenValue, f.sk)
                       ELSE IF \E j \in 1..(f.i - 1) : f.acc[j][1] = k
                            THEN encrypt(FromEntries(f.acc)[k], f.sk)
                            ELSE db[k]]
          /\ memoryCache' = memoryCache
          /\ Finish(s, Rest(s), Failed(f), Undefined, <<>>, ErrStorage)
    /\ UNCHANGED <<saltStore, legacy, nextSalt, faults, derivedKey, isUnlocked, apiKeyMemory, keyAge,
                   gateVars>>

\* second loop: dbSet(key, encrypted) settled
changePassphrase_write(s) ==
    /\ Running(s, "changePassphrase", "write")
    /\ LET f == Top(s) IN
       \/ /\ db' = [db EXCEPT ![f.acc[f.i][1]] = f.enc]
          /\ IF f.i >= Len(f.acc)
             THEN changePassphrase_done(s, f)
             ELSE /\ Continue(s, Rest(s),
                              [f EXCEPT !.i = f.i + 1,
                                        !.enc = encrypt(f.acc[f.i + 1][2], derivedKey)])
                  /\ memoryCache' = memoryCache
       \/ /\ faults
          /\ db' = db
          /\ memoryCache' = memoryCache
          /\ Finish(s, Rest(s), Failed(f), Undefined, <<>>, ErrStorage)
    /\ UNCHANGED <<saltStore, legacy, nextSalt, faults, derivedKey, isUnlocked, apiKeyMemory, keyAge,
                   gateVars>>

\* -------------------------------------------------------------- exportData
Enter_exportData(s, rest) ==
    LET f == Frame("exportData", NoPass, NoPass, "", "") IN
    IF ~isUnlocked
    THEN Finish(s, rest, f, Undefined, <<>>, ErrLocked)
    ELSE Continue(s, rest, [f EXCEPT !.pc = "keys"])

\* store.getAllKeys() settled; the loop calls this.getItem(key)
exportData_keys(s) ==
    /\ Running(s, "exportData", "keys")
    /\ \/ LET ks == allKeys(db) IN
          IF ks = <<>>
          THEN Finish(s, Rest(s), Top(s), Undefined, <<>>, NoErr)
          ELSE Enter_getItem(s, <<[Top(s) EXCEPT !.keys = ks, !.i = 1, !.acc = <<>>,
                                                 !.pc = "item"]>> \o Rest(s), ks[1])
       \/ /\ faults
          /\ Finish(s, Rest(s), Failed(Top(s)), Undefined, <<>>, ErrStorage)
    /\ UNCHANGED <<storeVars, vaultVars, gateVars>>

\* exported[key] = await this.getItem(key)
exportData_item(s) ==
    /\ Running(s, "exportData", "item")
    /\ LET f == Top(s)
           exported == Append(f.acc, <<f.keys[f.i], f.res>>)
       IN IF f.rerr # NoErr
          THEN Finish(s, Rest(s), f, Undefined, <<>>, f.rerr)
          ELSE IF f.i >= Len(f.keys)
               THEN Finish(s, Rest(s), f, Undefined, exported, NoErr)
               ELSE Enter_getItem(s, <<[f EXCEPT !.acc = exported, !.i = f.i + 1]>>
                                     \o Rest(s), f.keys[f.i + 1])
    /\ UNCHANGED <<storeVars, vaultVars, gateVars>>

\* -------------------------------------------------------------- importData
\* data is given by its entries in insertion order
Enter_importData(s, rest, data) ==
    LET f == [Frame("importData", NoPass, NoPass, "", "") EXCEPT !.acc = data] IN
    IF ~isUnlocked
    THEN Finish(s, rest, f, Undefined, <<>>, ErrLocked)
    ELSE IF data = <<>>
         THEN Finish(s, rest, f, Undefined, <<>>, NoErr)
         ELSE Enter_setItem(s, <<[f EXCEPT !.i = 1, !.pc = "item"]>> \o rest,
                            data[1][1], data[1][2])

\* await this.setItem(key, value) returned
importData_item(s) ==
    /\ Running(s, "importData", "item")
    /\ LET f == Top(s) IN
       IF f.rerr # NoErr
       THEN Finish(s, Rest(s), f, Undefined, <<>>, f.rerr)
       ELSE IF f.i >= Len(f.acc)
            THEN Finish(s, Rest(s), f, Undefined, <<>>, NoErr)
            ELSE Enter_setItem(s, <<[f EXCEPT !.i = f.i + 1]>> \o Rest(s),
                               f.acc[f.i + 1][1], f.acc[f.i + 1][2])
    /\ UNCHANGED <<storeVars, vaultVars, gateVars>>

\* ------------------------------------------------- legacy store, migration
NoMigration == [set |-> FALSE, data |-> <<>>, apiKey |-> NoText]
\* if (data): a stored, non-empty string
Truthy(t) == t # NoText /\ t # ""

keysToMigrate ==
    << <<"socialOrbit_friends", "friends">>, <<"socialOrbit_persona", "persona">>,
       <<"socialOrbit_formData", "formData">>, <<"socialOrbit_mockMode", "mockMode">> >>

\* the JavaScript string with text t, as a value
StringValue(t) == CASE t = "raw" -> "'raw'" [] t = "sk-1" -> "'sk-1'" [] OTHER -> "'raw'"

\* migrated[newKey] = JSON.parse(data), or data itself when that throws
RECURSIVE MigratedFrom(_, _)
MigratedFrom(i, store) ==
    IF i > Len(keysToMigrate) THEN <<>>
    ELSE LET data == store[keysToMigrate[i][1]]
             value == IF JSONparse(data) # ParseError THEN JSONparse(data)
                      ELSE StringValue(data)
         IN (IF Truthy(data) THEN << <<keysToMigrate[i][2], value>> >> ELSE <<>>)
            \o MigratedFrom(i + 1, store)

\* a migration that puts the API key among the values to store
migrateFromLocalStorage_withApiKey(store) ==
    [set |-> TRUE,
     data |-> MigratedFrom(1, store)
              \o << <<"apiKey", StringValue(store["socialOrbit_apiKey"])>> >>,
     apiKey |-> store["socialOrbit_apiKey"]]

migrateFromLocalStorage(store) ==
    [set |-> TRUE, data |-> MigratedFrom(1, store), apiKey |-> store["socialOrbit_apiKey"]]

\* a purge that leaves the legacy API key behind
clearOldLocalStorage_keepsApiKey(store) ==
    [k \in LegacyKeys |-> IF k = "socialOrbit_apiKey" THEN store[k] ELSE NoText]

clearOldLocalStorage(store) == [k \in LegacyKeys |-> NoText]

\* --------------------------------------------------------------- VaultGate
GateFrame(op, p, q) == [Frame(op, p, q, "", "") EXCEPT !.snap = legacy]

Start_checkVaultStatus(s) ==
    /\ CanStart(s)
    /\ gate = "checking"
    /\ Enter_vaultExists(s, <<[GateFrame("checkVaultStatus", NoPass, NoPass)
                               EXCEPT !.pc = "exists"]>>)
    /\ UNCHANGED <<storeVars, vaultVars, gateVars>>

\* vaultExists() returned: legacy data is looked for, the screen is chosen
checkVaultStatus_exists(s) ==
    /\ Running(s, "checkVaultStatus", "exists")
    /\ LET f == Top(s)
           oldData == Truthy(legacy["socialOrbit_friends"])
                      \/ Truthy(legacy["socialOrbit_persona"])
       IN IF f.rerr # NoErr
          THEN /\ gate' = "setup"
               /\ UNCHANGED <<migrationData, hasOldData>>
               /\ Finish(s, Rest(s), f, Undefined, <<>>, f.rerr)
          ELSE /\ hasOldData' = oldData
               /\ migrationData' = IF oldData THEN migrateFromLocalStorage(legacy)
                                   ELSE migrationData
               /\ gate' = IF f.res = "true" THEN "unlock" ELSE "setup"
               /\ Finish(s, Rest(s), f, f.res, <<>>, NoErr)
    /\ UNCHANGED <<storeVars, vaultVars, initialDataLoaded, appData>>

\* loadData: getItem for each of these, then onDataLoaded
LoadKeys == <<"friends", "persona", "formData", "mockMode">>

\* the keys of the App's three save effects, and the state each starts with
SaveKeys == {"friends", "formData", "mockMode"}
EMPTY_FORM == "EMPTY_FORM"
InitialAppData == [k \in SaveKeys |->
                      CASE k = "friends" -> "[]"
                        [] k = "formData" -> EMPTY_FORM
                        [] k = "mockMode" -> "false"]

\* the values JavaScript's || replaces by its right operand; ?? replaces
\* only null and undefined
Falsy(v) == v \in {"null", "false", "undefined", "NaN"}

\* handleDataLoaded(data): data is what loadData read, each getItem followed
\* by its own || or ??
handleDataLoaded(data) ==
    [k \in SaveKeys |->
        CASE k = "mockMode" -> IF data[k] \in {"null", "undefined"} THEN "false" ELSE data[k]
          [] OTHER -> IF Falsy(data[k]) THEN InitialAppData[k] ELSE data[k]]

\* setState('unlocked'); onUnlock(); loadData() up to its first await
Enter_loadData(s, f) ==
    /\ gate' = "unlocked"
    /\ Enter_getItem(s, <<[f EXCEPT !.pc = "load", !.i = 1, !.acc = <<>>]>> \o Rest(s),
                     LoadKeys[1])

\* loadData: a getItem returned; a throw is caught and logged
loadData_item(s) ==
    /\ call[s] # <<>> /\ Top(s).pc = "load"
    /\ LET f == Top(s)
           loaded == Append(f.acc, <<LoadKeys[f.i], f.res>>)
       IN IF f.rerr # NoErr
          THEN /\ Finish(s, Rest(s), f, "load failed", <<>>, NoErr)
               /\ UNCHANGED <<initialDataLoaded, appData>>
          ELSE IF f.i >= Len(LoadKeys)
               THEN /\ Finish(s, Rest(s), f, "loaded", loaded, NoErr)
                    /\ initialDataLoaded' = TRUE
                    /\ appData' = handleDataLoaded(FromEntries(loaded))
               ELSE /\ Enter_getItem(s, <<[f EXCEPT !.acc = loaded, !.i = f.i + 1]>>
                                        \o Rest(s), LoadKeys[f.i + 1])
                    /\ UNCHANGED <<initialDataLoaded, appData>>
    /\ UNCHANGED <<storeVars, vaultVars, gate, migrationData, hasOldData>>

Start_handleSetup(s) ==
    /\ CanStart(s)
    /\ gate = "setup"
    /\ \E passphrase \in Passphrases, confirmPassphrase \in Passphrases :
        LET f == GateFrame("handleSetup", passphrase, confirmPassphrase) IN
        IF Len(passphrase) < MinPassphraseLength
        THEN Finish(s, <<>>, f, Undefined, <<>>, ErrWeak)
        ELSE IF passphrase # confirmPassphrase
             THEN Finish(s, <<>>, f, Undefined, <<>>, ErrMismatch)
             ELSE Enter_initializeVault(s, <<[f EXCEPT !.pc = "init"]>>, passphrase)
    /\ UNCHANGED <<storeVars, vaultVars, gateVars>>

\* after the migration loop: the API key goes to memory, the legacy keys go
handleSetup_purge(s, f) ==
    /\ apiKeyMemory' = IF Truthy(migrationData.apiKey) THEN migrationData.apiKey
                       ELSE apiKeyMemory
    /\ keyAge' = IF Truthy(migrationData.apiKey) THEN 0 ELSE keyAge
    /\ legacy' = clearOldLocalStorage(legacy)
    /\ Enter_loadData(s, f)

\* initializeVault returned
handleSetup_inited(s) ==
    /\ Running(s, "handleSetup", "init")
    /\ LET f == Top(s) IN
       IF f.rerr # NoErr
       THEN /\ Finish(s, Rest(s), f, Undefined, <<>>, f.rerr)
            /\ UNCHANGED <<legacy, apiKeyMemory, keyAge, gate>>
       ELSE IF ~migrationData.set
            THEN /\ Enter_loadData(s, f)
                 /\ UNCHANGED <<legacy, apiKeyMemory, keyAge>>
            ELSE IF migrationData.data = <<>>
                 THEN handleSetup_purge(s, f)
                 ELSE /\ Enter_setItem(s, <<[f EXCEPT !.pc = "migrate", !.i = 1]>>
                                          \o Rest(s),
                                       migrationData.data[1][1], migrationData.data[1][2])
                      /\ UNCHANGED <<legacy, apiKeyMemory, keyAge, gate>>
    /\ UNCHANGED <<db, saltStore, nextSalt, faults, derivedKey, isUnlocked, memoryCache,
                   migrationData, hasOldData, initialDataLoaded, appData>>

\* a migration loop that purges after its first setItem
handleSetup_migrated_purgesEarly(s) ==
    /\ Running(s, "handleSetup", "migrate")
    /\ LET f == Top(s) IN
       IF f.rerr # NoErr
       THEN /\ Finish(s, Rest(s), f, Undefined, <<>>, f.rerr)
            /\ UNCHANGED <<legacy, apiKeyMemory, keyAge, gate>>
       ELSE handleSetup_purge(s, f)
    /\ UNCHANGED <<db, saltStore, nextSalt, faults, derivedKey, isUnlocked, memoryCache,
                   migrationData, hasOldData, initialDataLoaded, appData>>

\* a setItem of the migration loop returned
handleSetup_migrated(s) ==
    /\ Running(s, "handleSetup", "migrate")
    /\ LET f == Top(s) IN
       IF f.rerr # NoErr
       THEN /\ Finish(s, Rest(s), f, Undefined, <<>>, f.rerr)
            /\ UNCHANGED <<legacy, apiKeyMemory, keyAge, gate>>
       ELSE IF f.i >= Len(migrationData.data)
            THEN handleSetup_purge(s, f)
            ELSE /\ Enter_setItem(s, <<[f EXCEPT !.i = f.i + 1]>> \o Rest(s),
                                  migrationData.data[f.i + 1][1],
                                  migrationData.data[f.i + 1][2])
                 /\ UNCHANGED <<legacy, apiKeyMemory, keyAge, gate>>
    /\ UNCHANGED <<db, saltStore, nextSalt, faults, derivedKey, isUnlocked, memoryCache,
                   migrationData, hasOldData, initialDataLoaded, appData>>

Start_handleUnlock(s) ==
    /\ CanStart(s)
    /\ gate = "unlock" \/ (gate = "unlocked" /\ ~initialDataLoaded)
    /\ \E passphrase \in Passphrases :
        Enter_unlock(s, <<[GateFrame("handleUnlock", passphrase, NoPass)
                           EXCEPT !.pc = "unlock"]>>, passphrase)
    /\ UNCHANGED <<storeVars, vaultVars, gateVars>>

\* unlock returned
handleUnlock_unlocked(s) ==
    /\ Running(s, "handleUnlock", "unlock")
    /\ LET f == Top(s) IN
       IF f.rerr # NoErr
       THEN /\ Finish(s, Rest(s), f, Undefined, <<>>, f.rerr)
            /\ UNCHANGED gate
       ELSE Enter_loadData(s, f)
    /\ UNCHANGED <<storeVars, vaultVars, migrationData, hasOldData, initialDataLoaded, appData>>

Start_handleDestroyVault(s) ==
    /\ CanStart(s)
    /\ gate = "unlock"
    /\ Enter_destroyVault(s, <<[GateFrame("handleDestroyVault", NoPass, NoPass)
                                EXCEPT !.pc = "destroy"]>>)
    /\ UNCHANGED <<storeVars, vaultVars, gateVars>>

\* destroyVault returned; its rejection is not caught
handleDestroyVault_destroyed(s) ==
    /\ Running(s, "handleDestroyVault", "destroy")
    /\ LET f == Top(s) IN
       IF f.rerr # NoErr
       THEN /\ Finish(s, Rest(s), f, Undefined, <<>>, f.rerr)
            /\ UNCHANGED <<gate, migrationData, hasOldData>>
       ELSE /\ gate' = "setup"
            /\ migrationData' = NoMigration
            /\ hasOldData' = FALSE
            /\ Finish(s, Rest(s), f, Undefined, <<>>, NoErr)
    /\ UNCHANGED <<storeVars, vaultVars, initialDataLoaded, appData>>

Start_handleExportData(s) ==
    /\ CanStart(s)
    /\ gate = "unlock"
    /\ \E passphrase \in Passphrases :
        LET f == GateFrame("handleExportData", passphrase, NoPass) IN
        IF ~isUnlocked
        THEN Enter_unlock(s, <<[f EXCEPT !.pc = "unlock"]>>, passphrase)
        ELSE Enter_exportData(s, <<[f EXCEPT !.pc = "export"]>>)
    /\ UNCHANGED <<storeVars, vaultVars, gateVars>>

\* unlock returned
handleExportData_unlocked(s) ==
    /\ Running(s, "handleExportData", "unlock")
    /\ LET f == Top(s) IN
       IF f.rerr # NoErr
       THEN Finish(s, Rest(s), f, Undefined, <<>>, f.rerr)
       ELSE Enter_exportData(s, <<[f EXCEPT !.pc = "export"]>> \o Rest(s))
    /\ UNCHANGED <<storeVars, vaultVars, gateVars>>

\* exportData returned: the backup is downloaded
handleExportData_exported(s) ==
    /\ Running(s, "handleExportData", "export")
    /\ Finish(s, Rest(s), Top(s), Undefined, Top(s).resm, Top(s).rerr)
    /\ UNCHANGED <<storeVars, vaultVars, gateVars>>

\* --------------------------------------------------------------------- App
\* the App renders its main view instead of VaultGate
MainShown == gate = "unlocked" /\ initialDataLoaded
\* the persona the onboarding form submits, the key the settings form holds
Personas == {"[1]"}
ApiKeys == {"sk-1"}

\* handleLockVault: the vault is locked and VaultGate mounts again
Start_handleLockVault(s) ==
    /\ CanStart(s)
    /\ MainShown
    /\ lock_body
    /\ gate' = "checking"
    /\ migrationData' = NoMigration
    /\ hasOldData' = FALSE
    /\ initialDataLoaded' = FALSE
    /\ appData' = [appData EXCEPT !["friends"] = "[]", !["mockMode"] = "false"]
    /\ Finish(s, <<>>, Frame("handleLockVault", NoPass, NoPass, "", ""),
              Undefined, <<>>, NoErr)
    /\ UNCHANGED storeVars

\* handlePersonaSubmit: await secureStorage.setItem('persona', persona)
Start_handlePersonaSubmit(s) ==
    /\ CanStart(s)
    /\ MainShown
    /\ \E persona \in Personas :
        Enter_setItem(s, <<[Frame("handlePersonaSubmit", NoPass, NoPass, "", persona)
                            EXCEPT !.pc = "saved"]>>, "persona", persona)
    /\ UNCHANGED <<storeVars, vaultVars, gateVars>>

handlePersonaSubmit_saved(s) ==
    /\ Running(s, "handlePersonaSubmit", "saved")
    /\ Finish(s, Rest(s), Top(s), Undefined, <<>>, Top(s).rerr)
    /\ UNCHANGED <<storeVars, vaultVars, gateVars>>

\* handleApiKeySave: secureStorage.setApiKey(apiKey)
handleApiKeySave(s) ==
    /\ CanStart(s)
    /\ MainShown
    /\ \E key \in ApiKeys :
        /\ apiKeyMemory' = key
        /\ keyAge' = 0
        /\ Finish(s, <<>>, Frame("handleApiKeySave", NoPass, NoPass, "", key),
                  Undefined, <<>>, NoErr)
    /\ UNCHANGED <<storeVars, derivedKey, isUnlocked, memoryCache, gateVars>>

\* handleClearApiKey: secureStorage.clearApiKey()
handleClearApiKey(s) ==
    /\ CanStart(s)
    /\ MainShown
    /\ apiKeyMemory' = NoText
    /\ keyAge' = 0
    /\ Finish(s, <<>>, Frame("handleClearApiKey", NoPass, NoPass, "", ""),
              Undefined, <<>>, NoErr)
    /\ UNCHANGED <<storeVars, derivedKey, isUnlocked, memoryCache, gateVars>>

\* onFormChange: the user fills the form in
FILLED_FORM == "FILLED_FORM"
onFormChange(s) ==
    /\ CanStart(s)
    /\ MainShown
    /\ appData["formData"] = EMPTY_FORM
    /\ appData' = [appData EXCEPT !["formData"] = FILLED_FORM]
    /\ Finish(s, <<>>, Frame("onFormChange", NoPass, NoPass, "formData", FILLED_FORM),
              Undefined, <<>>, NoErr)
    /\ UNCHANGED <<storeVars, vaultVars, gate, migrationData, hasOldData, initialDataLoaded>>

\* addManualFriend: the friend of the form joins the list, the form is emptied
addManualFriend(s) ==
    /\ CanStart(s)
    /\ MainShown
    /\ appData["formData"] # EMPTY_FORM
    /\ appData' = [appData EXCEPT !["friends"] = "[1]", !["formData"] = EMPTY_FORM]
    /\ Finish(s, <<>>, Frame("addManualFriend", NoPass, NoPass, "friends", "[1]"),
              Undefined, <<>>, NoErr)
    /\ UNCHANGED <<storeVars, vaultVars, gate, migrationData, hasOldData, initialDataLoaded>>

\* onMockModeChange: the settings switch mock mode on
onMockModeChange(s) ==
    /\ CanStart(s)
    /\ MainShown
    /\ appData["mockMode"] = "false"
    /\ appData' = [appData EXCEPT !["mockMode"] = "true"]
    /\ Finish(s, <<>>, Frame("onMockModeChange", NoPass, NoPass, "mockMode", "true"),
              Undefined, <<>>, NoErr)
    /\ UNCHANGED <<storeVars, vaultVars, gate, migrationData, hasOldData, initialDataLoaded>>

\* a save effect that looks at isVaultUnlocked only
SaveGuard_unlockedOnly == gate = "unlocked"

\* the test the three save effects start with: isVaultUnlocked && initialDataLoaded
SaveGuard == gate = "unlocked" /\ initialDataLoaded

\* a save effect runs after a render: secureStorage.setItem(key, state), not
\* awaited; the effects' calls are caller 2's, beside whatever caller 1 awaits
saveEffect(s) ==
    /\ s = 2
    /\ call[2] = <<>>
    /\ SaveGuard
    /\ \E key \in SaveKeys : Enter_setItem(s, <<>>, key, appData[key])
    /\ UNCHANGED <<storeVars, vaultVars, gateVars>>

\* ------------------------------------------- calls made on the vault object
\* the arguments callers pass
CallerKeys == {"friends", "constructor"}
CallerValues == {"[1]", "undefined"}
ImportInputs == {<<>>, << <<"constructor", "[1]">>, <<"friends", "[1]">> >>}

Start_initializeVault(s) ==
    /\ CanStart(s)
    /\ \E passphrase \in Passphrases : Enter_initializeVault(s, <<>>, passphrase)
    /\ UNCHANGED <<storeVars, vaultVars, gateVars>>

Start_unlock(s) ==
    /\ CanStart(s)
    /\ \E passphrase \in Passphrases : Enter_unlock(s, <<>>, passphrase)
    /\ UNCHANGED <<storeVars, vaultVars, gateVars>>

lock(s) ==
    /\ CanStart(s)
    /\ lock_body
    /\ Finish(s, <<>>, Frame("lock", NoPass, NoPass, "", ""), Undefined, <<>>, NoErr)
    /\ UNCHANGED <<storeVars, gateVars>>

Start_setItem(s) ==
    /\ CanStart(s)
    /\ \E key \in CallerKeys, value \in CallerValues : Enter_setItem(s, <<>>, key, value)
    /\ UNCHANGED <<storeVars, vaultVars, gateVars>>

Start_getItem(s) ==
    /\ CanStart(s)
    /\ \E key \in CallerKeys : Enter_getItem(s, <<>>, key)
    /\ UNCHANGED <<storeVars, vaultVars, gateVars>>

Start_removeItem(s) ==
    /\ CanStart(s)
    /\ \E key \in CallerKeys : Enter_removeItem(s, <<>>, key)
    /\ UNCHANGED <<storeVars, vaultVars, gateVars>>

setApiKey(s) ==
    /\ CanStart(s)
    /\ \E key \in ApiKeys :
        /\ apiKeyMemory' = key
        /\ keyAge' = 0
        /\ Finish(s, <<>>, Frame("setApiKey", NoPass, NoPass, "", key),
                  Undefined, <<>>, NoErr)
    /\ UNCHANGED <<storeVars, derivedKey, isUnlocked, memoryCache, gateVars>>

getApiKey(s) ==
    /\ CanStart(s)
    /\ Finish(s, <<>>, Frame("getApiKey", NoPass, NoPass, "", ""),
              apiKeyMemory, <<>>, NoErr)
    /\ UNCHANGED <<storeVars, vaultVars, gateVars>>

clearApiKey(s) ==
    /\ CanStart(s)
    /\ apiKeyMemory' = NoText
    /\ keyAge' = 0
    /\ Finish(s, <<>>, Frame("clearApiKey", NoPass, NoPass, "", ""),
              Undefined, <<>>, NoErr)
    /\ UNCHANGED <<storeVars, derivedKey, isUnlocked, memoryCache, gateVars>>

Start_changePassphrase(s) ==
    /\ CanStart(s)
    /\ \E currentPassphrase \in Passphrases, newPassphrase \in Passphrases :
        Enter_changePassphrase(s, <<>>, currentPassphrase, newPassphrase)
    /\ UNCHANGED <<storeVars, vaultVars, gateVars>>

Start_destroyVault(s) ==
    /\ CanStart(s)
    /\ Enter_destroyVault(s, <<>>)
    /\ UNCHANGED <<storeVars, vaultVars, gateVars>>

Start_exportData(s) ==
    /\ CanStart(s)
    /\ Enter_exportData(s, <<>>)
    /\ UNCHANGED <<storeVars, vaultVars, gateVars>>

Start_importData(s) ==
    /\ CanStart(s)
    /\ \E data \in ImportInputs : Enter_importData(s, <<>>, data)
    /\ UNCHANGED <<storeVars, vaultVars, gateVars>>

Start_vaultExists(s) ==
    /\ CanStart(s)
    /\ Enter_vaultExists(s, <<>>)
    /\ UNCHANGED <<storeVars, vaultVars, gateVars>>

\* ------------------------------------------------------------ specification
\* what localStorage holds of the pre-vault format when the page loads
LegacyFull ==
    [k \in LegacyKeys |->
        CASE k = "socialOrbit_friends" -> "[1]"
          [] k = "socialOrbit_persona" -> "raw"
          [] k = "socialOrbit_formData" -> "[2]"
          [] k = "socialOrbit_mockMode" -> "false"
          [] OTHER -> "sk-1"]
LegacyInits == {NoLegacy, LegacyFull}

\* the state when the page has loaded
Boot ==
    /\ db = [k \in DbKeys |-> NoRec]
    /\ saltStore = NoSalt
    /\ nextSalt = 1
    /\ derivedKey = NoKey
    /\ isUnlocked = FALSE
    /\ memoryCache = EmptyObject
    /\ apiKeyMemory = NoText
    /\ keyAge = 0
    /\ gate = "checking"
    /\ migrationData = NoMigration
    /\ hasOldData = FALSE
    /\ initialDataLoaded = FALSE
    /\ appData = InitialAppData
    /\ call = [s \in Procs |-> <<>>]
    /\ last = NoLast
    /\ watch = NoWatch

\* the steps of the vault's async functions between their awaits
VaultStep(s) ==
    \/ initializeVault_derived(s) \/ initializeVault_store(s)
    \/ getSalt(s)
    \/ unlock_derived(s) \/ unlock_token(s) \/ unlock_verified(s)
    \/ setItem_store(s) \/ setItem_cache(s)
    \/ getItem_record(s) \/ getItem_decrypted(s)
    \/ destroyVault_clear(s)
    \/ exportData_keys(s) \/ exportData_item(s)
    \/ vaultExists_token(s)

\* the steps of changePassphrase between its awaits
ChangeStep(s) ==
    \/ changePassphrase_derived(s)
    \/ changePassphrase_token(s) \/ changePassphrase_verified(s)
    \/ changePassphrase_keys(s) \/ changePassphrase_read(s) \/ changePassphrase_dec(s)
    \/ changePassphrase_newsalt(s) \/ changePassphrase_newkey(s)
    \/ changePassphrase_store(s) \/ changePassphrase_write(s)

\* The vault object under a caller that awaits each call before the next.
Init == Boot /\ legacy = NoLegacy /\ faults = FALSE /\ nextIv = 0

Next ==
    \E s \in Procs :
        \/ VaultStep(s)
        \/ Start_initializeVault(s)
        \/ Start_unlock(s)
        \/ lock(s)
        \/ Start_setItem(s)
        \/ Start_getItem(s)
        \/ Start_removeItem(s) \/ removeItem_delete(s) \/ removeItem_cache(s)
        \/ setApiKey(s) \/ getApiKey(s) \/ clearApiKey(s)
        \/ Start_changePassphrase(s) \/ ChangeStep(s)
        \/ Start_destroyVault(s)
        \/ Start_exportData(s)
        \/ Start_importData(s) \/ importData_item(s)
        \/ Start_vaultExists(s)

Spec == Init /\ [][Next]_vars

\* The application: VaultGate and the App handlers drive the vault, the
\* legacy store may hold data, and IndexedDB requests may fail.
InitGate == Boot /\ legacy \in LegacyInits /\ faults = TRUE /\ nextIv = 0

NextGate ==
    \E s \in Procs :
        \/ VaultStep(s)
        \/ Start_checkVaultStatus(s) \/ checkVaultStatus_exists(s)
        \/ Start_handleSetup(s) \/ handleSetup_inited(s) \/ handleSetup_migrated(s)
        \/ Start_handleUnlock(s) \/ handleUnlock_unlocked(s)
        \/ Start_handleDestroyVault(s) \/ handleDestroyVault_destroyed(s)
        \/ Start_handleExportData(s) \/ handleExportData_unlocked(s)
        \/ handleExportData_exported(s)
        \/ Start_handleLockVault(s)
        \/ loadData_item(s)
        \/ Start_handlePersonaSubmit(s) \/ handlePersonaSubmit_saved(s)
        \/ handleApiKeySave(s) \/ handleClearApiKey(s)
        \/ Start_changePassphrase(s) \/ ChangeStep(s)

SpecGate == InitGate /\ [][NextGate]_vars

\* The App with its save effects: setup or unlock, the load, the user's edits
\* of the main view, the effects' writes, lock.
NextSave ==
    \E s \in Procs :
        \/ getSalt(s)
        \/ initializeVault_derived(s) \/ initializeVault_store(s)
        \/ unlock_derived(s) \/ unlock_token(s) \/ unlock_verified(s)
        \/ setItem_store(s) \/ setItem_cache(s)
        \/ getItem_record(s) \/ getItem_decrypted(s)
        \/ vaultExists_token(s)
        \/ Start_checkVaultStatus(s) \/ checkVaultStatus_exists(s)
        \/ Start_handleSetup(s) \/ handleSetup_inited(s)
        \/ Start_handleUnlock(s) \/ handleUnlock_unlocked(s)
        \/ loadData_item(s)
        \/ onFormChange(s) \/ addManualFriend(s) \/ onMockModeChange(s)
        \/ saveEffect(s)
        \/ Start_handleLockVault(s)

SpecSave == Init /\ [][NextSave]_vars

\* First-time setup over a legacy store that holds any non-empty subset of
\* the five legacy keys.
LegacySubsets ==
    {[k \in LegacyKeys |-> IF k \in S THEN LegacyFull[k] ELSE NoText] :
        S \in (SUBSET LegacyKeys) \ {{}}}
InitLegacy == Boot /\ legacy \in LegacySubsets /\ faults = FALSE /\ nextIv = 0

NextLegacy ==
    \E s \in Procs :
        \/ getSalt(s)
        \/ initializeVault_derived(s) \/ initializeVault_store(s)
        \/ setItem_store(s) \/ setItem_cache(s)
        \/ getItem_record(s)
        \/ vaultExists_token(s)
        \/ Start_checkVaultStatus(s) \/ checkVaultStatus_exists(s)
        \/ Start_handleSetup(s) \/ handleSetup_inited(s) \/ handleSetup_migrated(s)
        \/ loadData_item(s)

SpecLegacy == InitLegacy /\ [][NextLegacy]_vars

\* Two callers: caller 1 awaits its calls, and while its changePassphrase is
\* in flight caller 2 (an event handler or effect that does not wait for it)
\* calls setItem.
RaceValues == {"[2]"}
Overlap_setItem(s) ==
    /\ s = 2
    /\ call[2] = <<>>
    /\ call[1] # <<>> /\ call[1][Len(call[1])].op = "changePassphrase"
    /\ \E key \in CallerKeys, value \in RaceValues : Enter_setItem(s, <<>>, key, value)
    /\ UNCHANGED <<storeVars, vaultVars, gateVars>>

RaceStep(s) ==
    \/ initializeVault_derived(s) \/ initializeVault_store(s)
    \/ getSalt(s)
    \/ unlock_derived(s) \/ unlock_token(s) \/ unlock_verified(s)
    \/ setItem_store(s) \/ setItem_cache(s)
    \/ getItem_record(s) \/ getItem_decrypted(s)

NextRace ==
    \E s \in Procs :
        \/ RaceStep(s)
        \/ ChangeStep(s)
        \/ Start_initializeVault(s)
        \/ Start_unlock(s)
        \/ lock(s)
        \/ Start_setItem(s)
        \/ Start_getItem(s)
        \/ Start_changePassphrase(s)
        \/ Overlap_setItem(s)

SpecRace == Init /\ [][NextRace]_vars

\* The settings form and the analysis of the application while hours pass.
\* The README and the settings form promise expiry after this many hours.
ExpiryHours == 24
MaxKeyAge == ExpiryHours + 1

\* an hour passes with a key held and no handler running
HourPasses(s) ==
    /\ CanStart(s)
    /\ apiKeyMemory # NoText
    /\ keyAge < MaxKeyAge
    /\ keyAge' = keyAge + 1
    /\ last' = NoLast
    /\ UNCHANGED <<storeVars, derivedKey, isUnlocked, memoryCache, apiKeyMemory, gateVars,
                   call, nextIv, watch>>

\* analyzeAndAddFriend: analyzeFriend({apiKey, ...}) gets the apiKey state,
\* which is the key handleApiKeySave stored, '' after a clear or a lock
analyzeAndAddFriend(s) ==
    /\ CanStart(s)
    /\ MainShown
    /\ Finish(s, <<>>, Frame("analyzeAndAddFriend", NoPass, NoPass, "", apiKeyMemory),
              Undefined, <<>>, NoErr)
    /\ UNCHANGED <<storeVars, vaultVars, gateVars>>

NextExpiry ==
    \E s \in Procs :
        \/ getSalt(s)
        \/ initializeVault_derived(s) \/ initializeVault_store(s)
        \/ unlock_derived(s) \/ unlock_token(s) \/ unlock_verified(s)
        \/ getItem_record(s)
        \/ vaultExists_token(s)
        \/ Start_checkVaultStatus(s) \/ checkVaultStatus_exists(s)
        \/ Start_handleSetup(s) \/ handleSetup_inited(s)
        \/ Start_handleUnlock(s) \/ handleUnlock_unlocked(s)
        \/ Start_handleLockVault(s)
        \/ loadData_item(s)
        \/ handleApiKeySave(s) \/ handleClearApiKey(s)
        \/ analyzeAndAddFriend(s)
        \/ HourPasses(s)

SpecExpiry == Init /\ [][NextExpiry]_vars

\* The writers of the vault with the IVs of encrypt followed: every call of
\* crypto.getRandomValues gives a value it has not given before.
MaxIvs == 6
InitNonce == Boot /\ legacy = NoLegacy /\ faults = FALSE /\ nextIv = 1

NextNonce ==
    /\ nextIv <= MaxIvs
    /\ \E s \in Procs :
        \/ getSalt(s)
        \/ initializeVault_derived(s) \/ initializeVault_store(s)
        \/ setItem_store(s) \/ setItem_cache(s)
        \/ Start_initializeVault(s)
        \/ Start_setItem(s)
        \/ Start_changePassphrase(s) \/ ChangeStep(s)

SpecNonce == InitNonce /\ [][NextNonce]_vars

\* The data operations called with the key of the verification token.
ReservedKeys == {VAULT_CHECK}
ReservedInputs == {<< <<VAULT_CHECK, "[1]">> >>}

Start_setItem_reserved(s) ==
    /\ CanStart(s)
    /\ \E key \in ReservedKeys, value \in CallerValues : Enter_setItem(s, <<>>, key, value)
    /\ UNCHANGED <<storeVars, vaultVars, gateVars>>

Start_removeItem_reserved(s) ==
    /\ CanStart(s)
    /\ \E key \in ReservedKeys : Enter_removeItem(s, <<>>, key)
    /\ UNCHANGED <<storeVars, vaultVars, gateVars>>

Start_importData_reserved(s) ==
    /\ CanStart(s)
    /\ \E data \in ReservedInputs : Enter_importData(s, <<>>, data)
    /\ UNCHANGED <<storeVars, vaultVars, gateVars>>

NextReserved ==
    \E s \in Procs :
        \/ getSalt(s)
        \/ initializeVault_derived(s) \/ initializeVault_store(s)
        \/ unlock_derived(s) \/ unlock_token(s) \/ unlock_verified(s)
        \/ setItem_store(s) \/ setItem_cache(s)
        \/ removeItem_delete(s) \/ removeItem_cache(s)
        \/ importData_item(s)
        \/ vaultExists_token(s)
        \/ Start_initializeVault(s)
        \/ Start_unlock(s)
        \/ lock(s)
        \/ Start_vaultExists(s)
        \/ Start_setItem_reserved(s)
        \/ Start_removeItem_reserved(s)
        \/ Start_importData_reserved(s)

SpecReserved == Init /\ [][NextReserved]_vars

\* Two callers of the data operations on one vault: caller 1 sets the vault
\* up once and awaits its calls; while a getItem of caller 1 waits for its
\* decrypt (the record is read, the cache not yet written) caller 2 calls a
\* data operation of its own.
Setup_initializeVault(s) ==
    /\ db[VAULT_CHECK] = NoRec
    /\ Start_initializeVault(s)

Overlap_dataOp(s) ==
    /\ s = 2
    /\ call[2] = <<>>
    /\ Running(1, "getItem", "decrypt")
    /\ \E key \in CallerKeys :
        \/ \E value \in RaceValues : Enter_setItem(s, <<>>, key, value)
        \/ Enter_getItem(s, <<>>, key)
        \/ Enter_removeItem(s, <<>>, key)
    /\ UNCHANGED <<storeVars, vaultVars, gateVars>>

NextCache ==
    \E s \in Procs :
        \/ getSalt(s)
        \/ initializeVault_derived(s) \/ initializeVault_store(s)
        \/ unlock_derived(s) \/ unlock_token(s) \/ unlock_verified(s)
        \/ setItem_store(s) \/ setItem_cache(s)
        \/ getItem_record(s) \/ getItem_decrypted(s)
        \/ removeItem_delete(s) \/ removeItem_cache(s)
        \/ Setup_initializeVault(s)
        \/ Start_unlock(s)
        \/ lock(s)
        \/ Start_setItem(s)
        \/ Start_getItem(s)
        \/ Overlap_dataOp(s)

SpecCache == Init /\ [][NextCache]_vars

\* The bulk writers of the vault under a caller that awaits each call, with
\* IndexedDB requests that may fail.
InitFault == Boot /\ legacy = NoLegacy /\ faults = TRUE /\ nextIv = 0

NextFault ==
    \E s \in Procs :
        \/ getSalt(s)
        \/ initializeVault_derived(s) \/ initializeVault_store(s)
        \/ setItem_store(s) \/ setItem_cache(s)
        \/ Start_initializeVault(s)
        \/ Start_setItem(s)
        \/ Start_changePassphrase(s) \/ ChangeStep(s)
        \/ Start_importData(s) \/ importData_item(s)

SpecFault == InitFault /\ [][NextFault]_vars

\* ================================================================== claims
Bottom(stack) == stack[Len(stack)]
\* the call a caller has just started or that has just returned, in the
\* state after a step taken when no call was in flight
Entered(op) ==
    \/ last'.op = op
    \/ \E s \in Procs : call'[s] # <<>> /\ Bottom(call'[s]).op = op
DataOps == {"setItem", "getItem", "removeItem", "exportData", "importData"}

\* C1: unlock(B) on a vault whose verification token was written under a
\* different passphrase A fails with 'Incorrect passphrase', returns nothing,
\* and leaves the vault locked with no derived key.
C1_WrongPassphraseRejected ==
    (last.op = "unlock" /\ db[VAULT_CHECK] # NoRec /\ db[VAULT_CHECK].ck.pass # last.p)
    => /\ last.err = ErrIncorrect
       /\ last.ret = Undefined
       /\ ~isUnlocked
       /\ derivedKey = NoKey

C1_Witness ==
    /\ last.op = "unlock" /\ last.p = PassB /\ last.err = ErrIncorrect
    /\ db[VAULT_CHECK] # NoRec /\ db[VAULT_CHECK].ck.pass = PassA
    /\ db["friends"] # NoRec

\* C2: after initializeVault(p); setItem(k, v); lock(); unlock(p), getItem(k)
\* returns v, for every key k and JSON-serializable v.
C2_RoundTrip ==
    (watch.stage = "read" /\ ~watch.rot /\ watch.up = watch.p /\ watch.v \in JsonValues)
    => watch.r = watch.v

\* the same for the keys that name no property of Object.prototype
C2_RoundTripOwnKeys ==
    (watch.stage = "read" /\ ~watch.rot /\ watch.up = watch.p /\ watch.v \in JsonValues
     /\ watch.k \notin ProtoKeys)
    => watch.r = watch.v

\* C3: setItem, getItem, removeItem, exportData and importData called while
\* the vault is not unlocked fail with 'Vault is locked' and change neither
\* the blob store nor the cache.
C3_LockedGuard ==
    [][\A op \in DataOps :
        (Idle /\ ~isUnlocked /\ Entered(op)) =>
            /\ last'.op = op /\ last'.err = ErrLocked
            /\ db' = db /\ memoryCache' = memoryCache]_vars

C3_Witness ==
    /\ last.op \in DataOps /\ last.err = ErrLocked
    /\ db[VAULT_CHECK] # NoRec /\ db["friends"] # NoRec

\* C4: lock() leaves the vault locked with no derived key, an empty cache
\* and no API credential; a later successful unlock(p) holds the key derived
\* from p and the stored salt, and an empty cache.
C4_LockDiscards ==
    /\ last.op = "lock" =>
        /\ ~isUnlocked /\ derivedKey = NoKey
        /\ memoryCache = EmptyObject /\ apiKeyMemory = NoText
    /\ (last.op = "unlock" /\ last.err = NoErr) =>
        /\ isUnlocked /\ derivedKey = deriveKey(last.p, saltStore)
        /\ memoryCache = EmptyObject

C4_Witness ==
    /\ last.op = "unlock" /\ last.err = NoErr
    /\ watch.stage = "reopened"

\* C5: in every reachable state the derived key is non-null only if the
\* vault is unlocked.
C5_KeyOnlyWhileUnlocked == derivedKey # NoKey => isUnlocked

\* C6: a key set to v before a completed changePassphrase(old, new), old # new,
\* reads back as v after lock() and unlock(new), and unlock(old) fails with
\* 'Incorrect passphrase'.
C6_RotationPreservesData ==
    (watch.rot /\ watch.old # watch.new) =>
        /\ (watch.stage = "read" /\ watch.up = watch.new /\ watch.v \in JsonValues)
            => watch.r = watch.v
        /\ watch.up = watch.old => watch.stage # "reopened"
        /\ (watch.stage = "rejected" /\ watch.up = watch.old) => watch.r = ErrIncorrect

\* the same for the keys that name no property of Object.prototype
C6_RotationPreservesOwnKeys ==
    (watch.rot /\ watch.old # watch.new) =>
        /\ (watch.stage = "read" /\ watch.up = watch.new /\ watch.v \in JsonValues
            /\ watch.k \notin ProtoKeys)
            => watch.r = watch.v
        /\ watch.up = watch.old => watch.stage # "reopened"
        /\ (watch.stage = "rejected" /\ watch.up = watch.old) => watch.r = ErrIncorrect

\* the texts an API key takes as a value, as a stored string and as JSON
ApiKeyTexts == {"sk-1", "'sk-1'", "\"sk-1\""}
MigratedFull ==
    << <<"friends", "[1]">>, <<"persona", "'raw'">>,
       <<"formData", "[2]">>, <<"mockMode", "false">> >>

C8_PurgeOrdering ==
    [][/\ legacy' # legacy =>
            \A i \in 1..Len(migrationData.data) :
                LET key == migrationData.data[i][1]
                    value == migrationData.data[i][2]
                IN db[key] = encrypt(value, derivedKey)
       /\ (last'.op = "handleSetup" /\ last'.err # NoErr) => legacy' = last'.snap
      ]_vars

C8_Witness ==
    /\ last.op = "handleSetup" /\ last.err = ErrStorage
    /\ last.snap = LegacyFull /\ legacy = LegacyFull
    /\ db["friends"] # NoRec /\ db["mockMode"] = NoRec

C10_WeakPassphraseRejected ==
    [][\A p \in Passphrases :
        (/\ Idle /\ Len(p) < 4
         /\ \/ last'.op = "initializeVault" /\ last'.p = p
            \/ \E s \in Procs : /\ call'[s] # <<>>
                                /\ Bottom(call'[s]).op = "initializeVault"
                                /\ Bottom(call'[s]).p = p)
        => /\ last'.op = "initializeVault" /\ last'.err = ErrWeak
           /\ db' = db /\ saltStore' = saltStore /\ nextSalt' = nextSalt
           /\ derivedKey' = derivedKey /\ isUnlocked' = isUnlocked
           /\ memoryCache' = memoryCache /\ apiKeyMemory' = apiKeyMemory]_vars

C10_Witness ==
    /\ last.op = "initializeVault" /\ last.p = Short /\ last.err = ErrWeak
    /\ db[VAULT_CHECK] = NoRec /\ saltStore = NoSalt /\ ~isUnlocked

\* the verification token is stored
TokenPresent == db[VAULT_CHECK] # NoRec

\* C11 (first two parts): a successful initializeVault(p), called directly or
\* by handleSetup, leaves the vault unlocked with a salt stored and a token
\* that decrypts under deriveKey(p, salt); vaultExists() answers true exactly
\* when the token is present.
C11_InitAndExists ==
    /\ (last.op \in {"initializeVault", "handleSetup"} /\ last.err = NoErr) =>
        /\ isUnlocked /\ saltStore # NoSalt /\ TokenPresent
        /\ decrypt(db[VAULT_CHECK], deriveKey(last.p, saltStore)) # ParseError
    /\ (last.op \in {"vaultExists", "checkVaultStatus"} /\ last.err = NoErr) =>
        (last.ret = "true" <=> TokenPresent)

\* C11: the above, and whenever the vault is unlocked the verification token
\* is present, also when writing the token fails (stated here for the states
\* in which no call is in flight).
C11_TokenPresence ==
    /\ C11_InitAndExists
    /\ (Idle /\ isUnlocked) => TokenPresent

\* C12: when destroyVault() has returned, called directly from any state or
\* by handleDestroyVault, the blob store is empty, the salt is removed, the
\* vault is not unlocked and holds no derived key, cache or API key, and the
\* verification token that vaultExists() looks for is absent.
C12_DestroyClearsAll ==
    (last.op \in {"destroyVault", "handleDestroyVault"} /\ last.err = NoErr) =>
        /\ \A k \in DbKeys : db[k] = NoRec
        /\ saltStore = NoSalt
        /\ ~isUnlocked /\ derivedKey = NoKey
        /\ memoryCache = EmptyObject /\ apiKeyMemory = NoText
        /\ ~TokenPresent

\* a destroyVault returned after a salt had been created
C12_Witness ==
    /\ last.op = "destroyVault" /\ last.err = NoErr
    /\ nextSalt > 1 /\ saltStore = NoSalt

\* key is an own property of the cache with a defined value
Cached(key) == memoryCache[key] \notin {Absent, Undefined}

\* what a getItem(key) that returns in this step has to return, given the
\* cache, the record and the key before the step
GetItemReturns(key) ==
    /\ Cached(key) => last'.ret = memoryCache[key]
    /\ (~Cached(key) /\ db[key] = NoRec) => last'.ret = Null
    /\ (~Cached(key) /\ db[key] # NoRec /\ decrypt(db[key], derivedKey) = ParseError) =>
        /\ last'.ret = Null
        /\ isUnlocked' = isUnlocked /\ db' = db

\* C13: while unlocked, getItem(k) does not throw; it returns null when no
\* record is stored under k, returns null and leaves lock state and record
\* alone when the record does not decrypt under the current key, and returns
\* the cached value when k is in the cache.
C13_GetItemNull ==
    [][(last'.op = "getItem" /\ isUnlocked) =>
            /\ last'.err = NoErr
            /\ GetItemReturns(last'.k)]_vars

\* the same for the keys that name no property of Object.prototype
C13_GetItemNullOwnKeys ==
    [][(last'.op = "getItem" /\ isUnlocked /\ last'.k \notin ProtoKeys) =>
            /\ last'.err = NoErr
            /\ GetItemReturns(last'.k)]_vars

\* a getItem returned null for a stored record that does not decrypt (a
\* reachable state of Spec)
C13_UndecryptableCase ==
    /\ last.op = "getItem" /\ last.ret = Null /\ last.k = "friends"
    /\ db["friends"] # NoRec
    /\ decrypt(db["friends"], derivedKey) = ParseError

\* changePassphrase before it has verified current and checked new: the
\* positions up to the length test
VerifyPhase == {"salt_gen", "derive", "dbget", "verify"}
InVerifyPhase(s) ==
    call[s] # <<>> /\ Top(s).op = "changePassphrase" /\ Top(s).pc \in VerifyPhase
\* the step in which changePassphrase settles the verification
Verdict(s) ==
    Top(s).pc = "verify" =>
        IF decrypt(db[VAULT_CHECK], deriveKey(Top(s).p, saltStore)) = ParseError
        THEN last'.op = "changePassphrase" /\ last'.err = ErrCurrentIncorrect
        ELSE IF Len(Top(s).q) < 4
             THEN last'.op = "changePassphrase" /\ last'.err = ErrNewWeak
             ELSE last'.op # "changePassphrase"
\* a rejection comes from the verification phase only
RejectedInVerifyPhase(s) ==
    (last'.op = "changePassphrase" /\ last'.err \in {ErrCurrentIncorrect, ErrNewWeak})
    => InVerifyPhase(s)
StateKept == UNCHANGED <<saltStore, db, derivedKey, memoryCache, isUnlocked>>

\* C14: changePassphrase(current, new) fails with 'Current passphrase is
\* incorrect' when current does not decrypt the verification token and with
\* 'New passphrase must be at least 4 characters' when new is shorter than 4;
\* every step it takes up to such a rejection leaves salt, blob store,
\* derived key, cache and lock state as they were.
C14_RejectedChangeKeepsState ==
    [][\A s \in Procs :
        /\ InVerifyPhase(s) => (StateKept /\ Verdict(s))
        /\ RejectedInVerifyPhase(s)]_vars

\* the same on a vault that has a verification token
C14_RejectedChangeKeepsStateInitialized ==
    [][\A s \in Procs :
        /\ (InVerifyPhase(s) /\ TokenPresent) => (StateKept /\ Verdict(s))
        /\ RejectedInVerifyPhase(s)]_vars

\* both rejections on an initialized vault holding a record (reachable)
C14_RejectedCases ==
    /\ last.op = "changePassphrase" /\ TokenPresent /\ db["friends"] # NoRec
    /\ \/ last.err = ErrCurrentIncorrect /\ last.p # db[VAULT_CHECK].ck.pass
       \/ last.err = ErrNewWeak /\ last.q = Short

\* value is no value, or it is what the record stored under key holds under
\* the current derived key.  A record under a key K comes from a setItem made
\* while unlocked under K or from a rotation that re-encrypted into K, so such
\* a record is the trace of a write in the lineage of the current key.
InLineage(key, value) ==
    \/ value = Null
    \/ db[key] # NoRec /\ decrypt(db[key], derivedKey) = value

\* C15: every value getItem returns, and every value in the map exportData
\* returns, while the vault is unlocked is null or a value written under the
\* current key or under a key it was rotated from; none is a value written
\* under an unrelated key or never written.
C15_Lineage ==
    /\ (last.op = "getItem" /\ last.err = NoErr) => InLineage(last.k, last.ret)
    /\ (last.op = "exportData" /\ last.err = NoErr) =>
        \A i \in 1..Len(last.retm) : InLineage(last.retm[i][1], last.retm[i][2])

\* the same for the keys that name no property of Object.prototype
C15_LineageOwnKeys ==
    /\ (last.op = "getItem" /\ last.err = NoErr /\ last.k \notin ProtoKeys)
        => InLineage(last.k, last.ret)
    /\ (last.op = "exportData" /\ last.err = NoErr) =>
        \A i \in 1..Len(last.retm) :
            last.retm[i][1] \notin ProtoKeys
                => InLineage(last.retm[i][1], last.retm[i][2])

VaultOps == {"vaultExists", "initializeVault", "unlock", "setItem", "getItem",
             "removeItem", "changePassphrase", "destroyVault", "exportData",
             "importData"}

\* C16: when a request to the persistent store fails during a vault
\* operation, the operation ends and what it throws, to the handler awaiting
\* it or to its caller, is that storage error and no other error.
C16_StorageErrorPropagated ==
    /\ \A s \in Procs :
        (call[s] # <<>> /\ Top(s).cause # NoErr) => Top(s).rerr = Top(s).cause
    /\ (last.op \in VaultOps /\ last.cause # NoErr) => last.err = last.cause

\* the same for the operations other than unlock and the verification step
\* of changePassphrase
C16_PropagatedOutsideVerification ==
    /\ \A s \in Procs :
        (call[s] # <<>> /\ Top(s).cause # NoErr /\ Top(s).pc # "unlock")
            => Top(s).rerr = Top(s).cause
    /\ (/\ last.op \in VaultOps \ {"unlock"} /\ last.cause # NoErr
        /\ ~(last.op = "changePassphrase" /\ last.err = ErrCurrentIncorrect))
        => last.err = last.cause

\* C17 (what makes the race possible): the record a setItem writes is the
\* value encrypted under the key that was the derived key when setItem was
\* called, whatever the derived key is when the write lands; and when at the
\* end of the rotation scenario getItem(k) finds no value for a key that was
\* set, the record under k is encrypted under a key other than the current.
C17_WriteUnderCallTimeKey ==
    /\ [][\A s \in Procs :
            (Running(s, "setItem", "dbset") /\ call'[s] # call[s])
                => db'[Top(s).k] = encrypt(Top(s).v, Top(s).sk)]_vars
    /\ []((last.op = "getItem" /\ watch.stage = "read" /\ watch.rot
           /\ watch.up = watch.new
           /\ watch.v \in JsonValues \ {Null} /\ watch.k \notin ProtoKeys
           /\ watch.r # watch.v)
          => /\ db[watch.k] # NoRec
             /\ \/ db[watch.k].ck # derivedKey /\ watch.r = Null
                \/ db[watch.k] = encrypt(watch.r, derivedKey))

\* C17: "friends" held [1]; a setItem("friends", [2]) overlapped a
\* changePassphrase(old, new) and returned; after the rotation, lock() and
\* unlock(new), getItem("friends") returned null, neither [2] nor [1]: the
\* record is the one encrypted under the old key.
C17_Witness ==
    /\ last.op = "getItem"
    /\ watch.stage = "read" /\ watch.rot /\ watch.up = watch.new
    /\ watch.k = "friends" /\ watch.pre = "[1]" /\ watch.v = "[2]" /\ watch.r = Null
    /\ db["friends"] = encrypt("[2]", deriveKey(watch.old, db["friends"].ck.salt))
    /\ db["friends"].ck # derivedKey
    /\ derivedKey = deriveKey(watch.new, saltStore)

\* C18: a failed write in the second loop of changePassphrase changes nothing
\* back: the new salt, the new key and the new token stay, the records the
\* loop had rewritten are under the new key and the others it had read are
\* under the old key; and when a setItem of importData fails, the entries
\* imported before it stay stored under the current key and in the cache.
C18_NoRollback ==
    /\ [][\A s \in Procs :
            (/\ Running(s, "changePassphrase", "write")
             /\ last'.op = "changePassphrase" /\ last'.err = ErrStorage)
            => LET f == Top(s) IN
               /\ db' = db /\ saltStore' = saltStore /\ derivedKey' = derivedKey
               /\ saltStore = f.salt /\ derivedKey = deriveKey(f.q, f.salt)
               /\ db[VAULT_CHECK] = encrypt(TokenValue, derivedKey)
               /\ \A j \in 1..Len(f.acc) :
                    db[f.acc[j][1]] = encrypt(f.acc[j][2],
                                             IF j < f.i THEN derivedKey ELSE f.sk)]_vars
    /\ [](\A s \in Procs :
            (Running(s, "importData", "item") /\ Top(s).rerr # NoErr)
            => LET f == Top(s) IN
               \A j \in 1..(f.i - 1) :
                    /\ db[f.acc[j][1]] = encrypt(f.acc[j][2], derivedKey)
                    /\ memoryCache[f.acc[j][1]] = f.acc[j][2])

\* C18: changePassphrase has just failed on a storage error with the new salt
\* stored, the token and one record under the new key and another record
\* under a different key.
C18_Witness ==
    /\ last.op = "changePassphrase" /\ last.err = ErrStorage
    /\ derivedKey # NoKey /\ derivedKey.salt = saltStore
    /\ db[VAULT_CHECK] = encrypt(TokenValue, derivedKey)
    /\ \E k1, k2 \in DbKeys \ {VAULT_CHECK} :
            /\ db[k1] # NoRec /\ db[k1].ck = derivedKey
            /\ db[k2] # NoRec /\ db[k2].ck # derivedKey

\* C18: the second setItem of an importData has failed after the first entry
\* was stored.
C18_ImportWitness ==
    \E s \in Procs :
        /\ Running(s, "importData", "item") /\ Top(s).rerr = ErrStorage
        /\ Top(s).i = 2
        /\ db[Top(s).acc[1][1]] = encrypt(Top(s).acc[1][2], derivedKey)

\* C19: once the expiry window has passed since the API key was stored, the
\* application no longer hands the key to an analysis, and the key is cleared.
C19_KeyExpires ==
    (last.op = "analyzeAndAddFriend" /\ keyAge >= ExpiryHours)
        => (last.v = NoText /\ apiKeyMemory = NoText)

\* the keys of the blob store other than the token's
StoredKeys == {k \in DbKeys \ {VAULT_CHECK} : db[k] # NoRec}

\* the value of a record under the current key, null when it has none
Decrypted(key) ==
    IF decrypt(db[key], derivedKey) = ParseError THEN Null
    ELSE decrypt(db[key], derivedKey)

\* exportData has returned a map with exactly the stored keys, each with the
\* value its record decrypts to under the current key
ExportExact(keys) ==
    (last.op = "exportData" /\ last.err = NoErr) =>
        /\ {last.retm[i][1] : i \in 1..Len(last.retm)} = StoredKeys
        /\ Len(last.retm) = Cardinality(StoredKeys)
        /\ \A i \in 1..Len(last.retm) :
                last.retm[i][1] \in keys
                    => last.retm[i][2] = Decrypted(last.retm[i][1])

\* what getItem(key) returns from this state, the vault being unlocked
getItemValue(key) ==
    IF Lookup(memoryCache, key) # Undefined THEN Lookup(memoryCache, key)
    ELSE IF db[key] = NoRec \/ decrypt(db[key], derivedKey) = ParseError THEN Null
    ELSE decrypt(db[key], derivedKey)

\* an importData(d) that returns leaves getItem(k) = d[k] for every key of d
ImportThenGet ==
    \A s \in Procs :
        (Running(s, "importData", "item") /\ last'.op = "importData" /\ last'.err = NoErr)
            => \A j \in 1..Len(Top(s).acc), k \in DbKeys :
                    k = Top(s).acc[j][1] => getItemValue(k)' = Top(s).acc[j][2]

\* C20: while unlocked, exportData() returns exactly the stored keys other
\* than the token's, each with its decrypted value, and after importData(d)
\* getItem(k) returns d[k] for every key k of d.
C20_ExportImport ==
    /\ [](ExportExact(DbKeys))
    /\ [][ImportThenGet]_vars

\* the export for the keys that name no property of Object.prototype and
\* whose record was written under the current key
C20_ExportOwnKeys ==
    ExportExact({k \in DbKeys \ ProtoKeys : db[k].ck = derivedKey})

\* the import half alone
C20_ImportThenGet == [][ImportThenGet]_vars

\* getItemValue is what getItem returns
C20_GetItemValue ==
    (last.op = "getItem" /\ last.err = NoErr) => last.ret = getItemValue(last.k)

\* C21: no two records of the store made under the same key carry the same
\* IV, and every write stores a record whose IV no record of the store
\* carries, the record it replaces included (so the same value written twice
\* under the same key gives two different records).
C21_NonceUnique ==
    /\ [](\A k1, k2 \in DbKeys :
            (k1 # k2 /\ db[k1] # NoRec /\ db[k2] # NoRec /\ db[k1].ck = db[k2].ck)
                => db[k1].iv # db[k2].iv)
    /\ [][\A k \in DbKeys :
            (db'[k] # db[k] /\ db'[k] # NoRec)
                => \A k2 \in DbKeys : db[k2] # NoRec => db[k2].iv # db'[k].iv]_vars

\* C21: after the token (IV 1) and a record under "constructor" (IV 2),
\* "friends" was written twice under the same key; the record in the store is
\* the second one, holding [1] under IV 4.
C21_Witness ==
    /\ last.op = "setItem" /\ last.k = "friends" /\ last.v = "[1]"
    /\ db["friends"].ck = derivedKey /\ db["friends"].pt = JSONstringify("[1]")
    /\ db["friends"].iv = 4
    /\ db["constructor"].ck = derivedKey /\ db["constructor"].iv = 2
    /\ db[VAULT_CHECK].ck = derivedKey /\ db[VAULT_CHECK].iv = 1
    /\ memoryCache["friends"] = "[1]"

\* C22: no step of a setItem, a removeItem or an importData, whatever its
\* key, changes the record of the verification token; and once a vault is
\* initialized vaultExists() answers true.
C22_TokenProtected ==
    /\ [][(\E s \in Procs :
                /\ call[s] # <<>>
                /\ Bottom(call[s]).op \in {"setItem", "removeItem", "importData"})
            => db'[VAULT_CHECK] = db[VAULT_CHECK]]_vars
    /\ [][(db[VAULT_CHECK] # NoRec /\ last'.op = "vaultExists")
            => last'.ret = "true"]_vars

\* C23: in every state where the vault is not unlocked the cache is empty.
C23_NoCacheWhileLocked == ~isUnlocked => memoryCache = EmptyObject


\* C24: whenever the vault is unlocked and no call is in flight, every key
\* the cache holds a value for has a record in the store that decrypts under
\* the current key to the cached value.
C24_CacheCoherent ==
    (Idle /\ isUnlocked) =>
        \A k \in DbKeys :
            Cached(k) => /\ db[k] # NoRec
                         /\ decrypt(db[k], derivedKey) = memoryCache[k]


\* C25: whenever no call is in flight and a verification token is stored, the
\* stored salt and the token fit: some passphrase derives, with the stored
\* salt, a key the token decrypts under, so that unlock succeeds with it.
C25_SaltAndTokenFit ==
    (Idle /\ db[VAULT_CHECK] # NoRec) =>
        \E p \in Passphrases :
            decrypt(db[VAULT_CHECK], deriveKey(p, saltStore)) # ParseError


\* C26: no step of an unlock changes the salt, the verification token or any
\* stored record; in particular unlock creates no salt.
C26_UnlockNoDurableEffect ==
    [][(\E s \in Procs : call[s] # <<>> /\ Bottom(call[s]).op = "unlock")
        => (saltStore' = saltStore /\ db' = db)]_vars

\* no step of an unlock changes a stored record or the token
C26_UnlockKeepsRecords ==
    [][(\E s \in Procs : call[s] # <<>> /\ Bottom(call[s]).op = "unlock")
        => db' = db]_vars


\* C27: no step of an initializeVault changes a verification token that is
\* already stored.
C27_InitKeepsToken ==
    [][\A s \in Procs :
        (call[s] # <<>> /\ Top(s).op = "initializeVault" /\ db[VAULT_CHECK] # NoRec)
            => db'[VAULT_CHECK] = db[VAULT_CHECK]]_vars

\* C28: the save effects start setItem for 'friends', 'formData' and 'mockMode'
\* only while the vault is unlocked and the initial load has completed; so
\* between unlock and the completion of loadData no stored record of these
\* keys is replaced by the default value, and the empty list handleLockVault
\* leaves in the App's state is never written over a stored list of friends.
DefaultText(k) == JSONstringify(InitialAppData[k])
C28_SaveAfterLoad ==
    [][/\ (call[2] = <<>> /\ call'[2] # <<>>) => (gate = "unlocked" /\ initialDataLoaded)
       /\ \A k \in SaveKeys :
            (gate = "unlocked" /\ ~initialDataLoaded /\ db[k] # NoRec /\ db'[k] # db[k])
                => db'[k].pt # DefaultText(k)
       /\ db["friends"].pt = "[1]" => db'["friends"].pt # "[]"]_vars
\* the vault was locked with a list of friends stored and is unlocked again:
\* loadData is still reading while the App's list is the empty one
C28_Witness ==
    /\ gate = "unlocked" /\ ~initialDataLoaded /\ isUnlocked
    /\ db["friends"].pt = "[1]" /\ appData["friends"] = "[]"
    /\ call[1] # <<>> /\ call[1][Len(call[1])].pc = "load"
    /\ call[2] = <<>>


\* C29: once a first-time setup has succeeded (the gate is 'unlocked'), none
\* of the five legacy keys is left in the legacy store, whichever non-empty
\* subset of them was there before; a legacy API key alone is removed too.
C29_LegacyPurged ==
    gate = "unlocked" => \A k \in LegacyKeys : legacy[k] = NoText

\* C30: whenever VaultGate shows the setup or the unlock screen and no call
\* is in flight, the vault is not unlocked and holds no derived key; also
\* after handleExportData on the unlock screen and after a handleSetup whose
\* migration failed.
C30_GateAgreesWithVault ==
    (Idle /\ gate \in {"setup", "unlock"}) => (~isUnlocked /\ derivedKey = NoKey)

====
